---------------------------- MODULE Spec2Model ----------------------------
(* Model of slider.py: the serial request/response handler, the idle       *)
(* poller, the per-mode step planning and the top-level script that         *)
(* interleaves moves, idle waits and captures, with its cleanup paths.      *)
(*                                                                          *)
(* Text is modelled as a sequence of one-character strings ("CR" and "LF"   *)
(* stand for the carriage return and line feed characters), so that the     *)
(* regular-expression sanitisation, startswith and slicing of the source    *)
(* are computed character by character.                                     *)
EXTENDS Integers, Sequences, FiniteSets, TLC

\* ------------------------------------------------------------------ bounds
\* largest --shutter-count drawn
MaxShutter == 3
\* largest --stack-count drawn
MaxStack == 3
\* the counter of status queries saturates here (the loop itself is unbounded)
MaxPolls == 3
\* fractional digits written by FormatFloat before it stops dividing
MaxFracDigits == 4

\* --------------------------------------------------------- program constants
FEEDRATE == 1000
FEEDRATE_SLOW == 500
FILE_EXTENSION == <<".", "j", "p", "g">>
\* range(0, 9999) of _acquire_filename
NameRange == 9999

MODE_INTERVAL == "interval"
MODE_VIDEO == "video"
MODE_BOUNCE == "bounce"
MODE_MACRO == "macro"
MODE_MOVE == "move"
MODE_WAIT == "wait"
MODE_DISABLE == "disable"

Modes == {MODE_INTERVAL, MODE_VIDEO, MODE_BOUNCE, MODE_MOVE, MODE_MACRO, MODE_WAIT, MODE_DISABLE}

\* a missing optional argument (Python None)
None == "None"

\* ------------------------------------------------------------ text helpers
Letters == {"a","b","c","d","e","f","g","h","i","j","k","l","m","n","o","p","q","r","s","t","u","v","w","x","y","z",
            "A","B","C","D","E","F","G","H","I","J","K","L","M","N","O","P","Q","R","S","T","U","V","W","X","Y","Z"}

DigitChars == <<"0","1","2","3","4","5","6","7","8","9">>

Digits == {DigitChars[k] : k \in 1..10}

\* the character class [a-zA-Z0-9_ .$] kept by re.sub at line 73
AllowedChars == Letters \cup Digits \cup {"_", " ", ".", "$"}

StartsWith(s, p) == Len(s) >= Len(p) /\ SubSeq(s, 1, Len(p)) = p

\* Python's s[k:]
Drop(s, k) == IF k >= Len(s) THEN <<>> ELSE SubSeq(s, k + 1, Len(s))

IsAllowed(c) == c \in AllowedChars

\* a sanitisation that removes nothing
Sanitize_nothing(s) == s

\* re.sub("[^a-zA-Z0-9_ .$]", '', response)
Sanitize(s) == SelectSeq(s, IsAllowed)

\* str(n) of a natural number
RECURSIVE NatStr(_)
NatStr(n) == IF n < 10 THEN <<DigitChars[n + 1]>> ELSE NatStr(n \div 10) \o <<DigitChars[(n % 10) + 1]>>

\* -------------------------------------------------------- Python numbers
\* A number is a sign, a fraction n/d in lowest terms and whether it is a
\* float (f) or an int. The sign is kept for zero too: -6.0 * 0 is -0.0.
RECURSIVE Gcd(_, _)
Gcd(a, b) == IF b = 0 THEN a ELSE Gcd(b, a % b)

Norm(neg, n, d, f) == LET g == Gcd(n, d) IN [neg |-> neg, n |-> n \div g, d |-> d \div g, f |-> f]

IntNum(k) == [neg |-> k < 0, n |-> IF k < 0 THEN -k ELSE k, d |-> 1, f |-> FALSE]

\* float(a)
ToFloat(a) == [a EXCEPT !.f = TRUE]

\* float(a) / k for an int k >= 1
DivInt(a, k) == Norm(a.neg, a.n, a.d * k, TRUE)

\* a * i for an int i >= 0 (an int times an int stays an int)
MulInt(a, i) == Norm(a.neg, a.n * i, a.d, a.f)

\* numeric equality (0.0 == -0.0 == 0)
NumEq(a, b) == \/ a.n = 0 /\ b.n = 0
               \/ a.neg = b.neg /\ a.n * b.d = b.n * a.d

RECURSIVE FracDigits(_, _, _)
FracDigits(r, d, k) ==
    IF r = 0 \/ k = 0 THEN <<>>
    ELSE <<DigitChars[((r * 10) \div d) + 1]>> \o FracDigits((r * 10) % d, d, k - 1)

\* "{}".format(a): repr of an int, or of a float with a short decimal expansion
FormatNum(a) ==
    LET sign == IF a.neg THEN <<"-">> ELSE <<>>
        whole == NatStr(a.n \div a.d)
        frac == FracDigits(a.n % a.d, a.d, MaxFracDigits)
    IN  IF a.f THEN sign \o whole \o <<".">> \o (IF frac = <<>> THEN <<"0">> ELSE frac)
        ELSE sign \o whole

\* ---------------------------------------------------------- command texts
CR == "CR"
LF == "LF"
OK == <<"o", "k">>
IDLE == <<"I", "d", "l", "e">>
QUERY == <<"?">>
\* the homing-cycle command in place of the unlock command
UNLOCK_typo == <<"$", "H">>

UNLOCK == <<"$", "X">>
G1 == <<"G", "1">>

\* the setup list with the unit selection ahead of the positioning mode
grbl_setup_commands_swapped ==
    << <<"G", "2", "1">>,
       <<"G", "9", "0">>,
       <<"G","1","0"," ","P","0"," ","L","2","0"," ","X","0"," ","Y","0"," ","Z","0">>,
       G1 \o <<" ", "F">> \o NatStr(FEEDRATE) >>

\* grbl_setup_commands
grbl_setup_commands ==
    << <<"G", "9", "0">>,
       <<"G", "2", "1">>,
       <<"G","1","0"," ","P","0"," ","L","2","0"," ","X","0"," ","Y","0"," ","Z","0">>,
       G1 \o <<" ", "F">> \o NatStr(FEEDRATE) >>

\* "G1 X{} Y{} Z{} F{}".format(x, y, z, feed)
MoveCmd(x, y, z, feed) ==
    G1 \o <<" ", "X">> \o FormatNum(x) \o <<" ", "Y">> \o FormatNum(y)
       \o <<" ", "Z">> \o FormatNum(z) \o <<" ", "F">> \o NatStr(feed)

\* "G1 X{} Y{} Z{}".format(0, 0, 0)
HomeCmd == G1 \o <<" ", "X", "0", " ", "Y", "0", " ", "Z", "0">>

\* "G1 " + "X{}" + "Y{}" + "Z{}" + " F{}" of the video and bounce modes
JoinedMoveCmd(x, y, z, feed) ==
    G1 \o <<" ", "X">> \o FormatNum(x) \o <<"Y">> \o FormatNum(y)
       \o <<"Z">> \o FormatNum(z) \o <<" ", "F">> \o NatStr(feed)

\* "G1 X0 Y0 Z0 F{}".format(feedrate), the second bounce command
BounceHomeCmd(feed) == HomeCmd \o <<" ", "F">> \o NatStr(feed)

\* ------------------------------------------------------------ serial link
\* What one write/read exchange can yield: the bytes read within the
\* timeout, or an exception of the serial library or of the decoding.
Bytes(data) == [kind |-> "bytes", data |-> data]

WriteError == [kind |-> "write_error", data |-> <<>>]

ReadError == [kind |-> "read_error", data |-> <<>>]

DecodeError == [kind |-> "decode_error", data |-> <<>>]

\* SIGINT delivered while the read is blocking: KeyboardInterrupt
Interrupted == [kind |-> "interrupt", data |-> <<>>]

LinkErrors == {WriteError, ReadError, DecodeError, Interrupted}

\* replies of the controller to a command other than the status query
CommandReplies(cmd) ==
    { <<>>,
      OK \o <<CR, LF>>,
      cmd \o <<CR, LF>> \o OK \o <<CR, LF>>,
      <<"<", "o", ":", "k", ">", CR, LF>>,
      <<"e","r","r","o","r",":","9", CR, LF>> }

\* replies of the controller to the status query "?"
StatusReplies ==
    { <<>>,
      <<"<", ">", CR, LF>>,
      <<"<","I","d","l","e","|","M","P","o","s",":","0",".","0",">", CR, LF>>,
      <<"<","R","u","n","|","M","P","o","s",":","1",".","5",">", CR, LF>>,
      <<"<","I","d","l","e","w","a","i","t","|","M","P","o","s",":","0",".","0",">", CR, LF>>,
      <<"<","R","u","n","|","I","d","l","e",">", CR, LF>>,
      OK \o <<CR, LF>> }

Outcomes(cmd) ==
    LinkErrors \cup {Bytes(d) : d \in (IF cmd = QUERY THEN StatusReplies ELSE CommandReplies(cmd))}

Raise(what) == [raised |-> TRUE, err |-> what, ret |-> <<>>]

\* a returned value; ret is <<>> for None and <<text>> for a string
Return(val) == [raised |-> FALSE, err |-> "", ret |-> val]

\* _send_command reporting a reply that is not "ok" as None instead of raising
send_command_lenient(cmd, o) ==
    IF o.kind \in {"write_error", "read_error"} THEN Raise("SerialException")
    ELSE IF o.kind = "decode_error" THEN Raise("UnicodeDecodeError")
    ELSE IF o.kind = "interrupt" THEN Raise("KeyboardInterrupt")
    ELSE LET response == Sanitize(o.data) IN
         IF Len(response) = 0 THEN Raise("empty response or timeout")
         ELSE IF cmd = QUERY THEN Return(<<response>>)
         ELSE LET rest == IF StartsWith(response, cmd) THEN Drop(response, Len(cmd)) ELSE response IN
              IF StartsWith(rest, OK) /\ Len(rest) > 1 THEN Return(<<Drop(rest, 3)>>) ELSE Return(<<>>)

\* _send_command(ser, cmd) with the outcome o of its write/read exchange
send_command(cmd, o) ==
    IF o.kind \in {"write_error", "read_error"} THEN Raise("SerialException")
    ELSE IF o.kind = "decode_error" THEN Raise("UnicodeDecodeError")
    ELSE IF o.kind = "interrupt" THEN Raise("KeyboardInterrupt")
    ELSE LET response == Sanitize(o.data) IN
         IF Len(response) = 0 THEN Raise("empty response or timeout")
         ELSE IF cmd = QUERY THEN Return(<<response>>)
         ELSE LET rest == IF StartsWith(response, cmd) THEN Drop(response, Len(cmd)) ELSE response IN
              IF StartsWith(rest, OK)
              THEN (IF Len(rest) > 1 THEN Return(<<Drop(rest, 3)>>) ELSE Return(<<>>))
              ELSE Raise("serial error, non ok response")

\* an except clause that lets the errors of the serial library through
except_all_but_serial(err) == err \notin {"KeyboardInterrupt", "SerialException"}

\* "except Exception" of wait_for_idle: KeyboardInterrupt is a BaseException
\* and no Exception, every other error raised by _send_command is one
except_Exception(err) == err # "KeyboardInterrupt"

\* wait_for_idle leaving its loop on any reply that parsed, whatever the status
wait_for_idle_done_any_reply(r) == ~r.raised

\* the loop test of wait_for_idle on the result r of its status query:
\* TRUE when the loop breaks, FALSE when it goes round again
wait_for_idle_done(r) == ~r.raised /\ StartsWith(r.ret[1], IDLE)

\* ------------------------------------------------------------- filenames
RECURSIVE ZFill(_, _)
ZFill(s, width) == IF Len(s) >= width THEN s ELSE ZFill(<<"0">> \o s, width)

\* str(i).zfill(4) + FILE_EXTENSION
TestName(k) == ZFill(NatStr(k), 4) \o FILE_EXTENSION

\* the loop over range(lo, 9999): the first candidate whose name is not
\* present, <<>> when the loop runs out
ScanNames(lo, present) ==
    LET free(k) == TestName(k) \notin present
    IN  IF \E k \in lo..(NameRange - 1) : free(k)
        THEN <<TestName(CHOOSE k \in lo..(NameRange - 1) : free(k) /\ \A m \in lo..(k - 1) : ~free(m))>>
        ELSE <<>>

\* an allocator that hands out the first candidate whatever the directory holds
acquire_filename_first(present) == <<TestName(0)>>

\* _acquire_filename(path), given the names present in path: the filename
\* component of the returned pair, <<>> for None and <<name>> otherwise
acquire_filename(present) == ScanNames(0, present)

\* ---------------------------------------------------------------- planning
Some(v) == <<v>>

IsNone(a) == a = <<>>

\* interval planning that divides the request by the count instead of count - 1
interval_steps_div_n(x, y, z, n) ==
    LET step_size == <<DivInt(ToFloat(x), n), DivInt(ToFloat(y), n), DivInt(ToFloat(z), n)>>
    IN  [k \in 1..(n + 1) |->
            <<MulInt(step_size[1], k - 1), MulInt(step_size[2], k - 1), MulInt(step_size[3], k - 1)>>]

\* the steps list of interval mode: input_shutter + 1 positions
interval_steps(x, y, z, n) ==
    LET step_size == <<DivInt(ToFloat(x), n - 1), DivInt(ToFloat(y), n - 1), DivInt(ToFloat(z), n - 1)>>
    IN  [k \in 1..(n + 1) |->
            <<MulInt(step_size[1], k - 1), MulInt(step_size[2], k - 1), MulInt(step_size[3], k - 1)>>]

\* macro planning that divides the X request by the stack count instead of count - 1
macro_steps_div_s(x, y, z, n, s) ==
    LET sx == DivInt(ToFloat(x), s)
        sy == IF n > 1 THEN DivInt(ToFloat(y), n - 1) ELSE IntNum(0)
        sz == IF n > 1 THEN DivInt(ToFloat(z), n - 1) ELSE IntNum(0)
        x_steps == [k \in 1..(s + 1) |-> MulInt(sx, k - 1)]
    IN  [k \in 1..(n + 1) |-> <<x_steps, MulInt(sy, k - 1), MulInt(sz, k - 1)>>]

\* the steps list of macro mode: input_shutter + 1 entries [x_steps, y, z],
\* x_steps holding input_stack + 1 positions
macro_steps(x, y, z, n, s) ==
    LET sx == DivInt(ToFloat(x), s - 1)
        sy == IF n > 1 THEN DivInt(ToFloat(y), n - 1) ELSE IntNum(0)
        sz == IF n > 1 THEN DivInt(ToFloat(z), n - 1) ELSE IntNum(0)
        x_steps == [k \in 1..(s + 1) |-> MulInt(sx, k - 1)]
    IN  [k \in 1..(n + 1) |-> <<x_steps, MulInt(sy, k - 1), MulInt(sz, k - 1)>>]

\* cmds of bounce mode
bounce_cmds(x, y, z, feed) == <<JoinedMoveCmd(x, y, z, feed), BounceHomeCmd(feed)>>

\* ------------------------------------------------------------- file system
OutputDir == <<"output_dir">>

\* "stack_{}".format(i)
StackName(k) == <<"s", "t", "a", "c", "k", "_">> \o NatStr(k)

\* every stack sharing the directory of the first
StackDir_shared(k) == <<"output_dir", StackName(0)>>

StackDir(k) == <<"output_dir", StackName(k)>>

Dirs == {OutputDir} \cup {StackDir(k) : k \in 0..MaxShutter}

NoDir == [exists |-> FALSE, files |-> {}]

EmptyDir == [exists |-> TRUE, files |-> {}]

\* file systems the script may be started on
InitialFs ==
    { [d \in Dirs |-> NoDir],
      [d \in Dirs |-> IF d = OutputDir THEN EmptyDir ELSE NoDir],
      [d \in Dirs |-> IF d = OutputDir THEN [exists |-> TRUE, files |-> {TestName(0), TestName(1)}]
                      ELSE IF d = StackDir(0) THEN [exists |-> TRUE, files |-> {TestName(0)}]
                      ELSE NoDir] }

\* the names 0000.jpg .. of the first n candidates
NamesBelow(n) == {TestName(k) : k \in 0..(n - 1)}

OutputHolds(names) == [d \in Dirs |-> IF d = OutputDir THEN [exists |-> TRUE, files |-> names] ELSE NoDir]

\* well-filled output directories: 0000..0041 present, only 9999 free, nothing free
FilledFs == {OutputHolds(NamesBelow(42)), OutputHolds(NamesBelow(NameRange)), OutputHolds(NamesBelow(NameRange + 1))}

\* ------------------------------------------------------------------- state
VARIABLES
    mode,           \* args["command"]
    args,           \* the parsed arguments; a count is <<>> for None and <<n>> otherwise
    input_shutter,  \* args["shutter_count"], raised to 1 by macro mode
    input_stack,    \* args["stack_count"]
    pc,             \* position of the script
    i, j,           \* loop indices (0-based as in the source)
    steps,          \* the steps list of interval and macro mode
    tx,             \* the last command written to the serial port
    rx,             \* the outcome of the last write/read exchange
    trace,          \* commands written (status queries excepted), idle confirmations, captures, close_ports calls
    polls,          \* status queries of the current wait_for_idle call (saturating)
    inflight,       \* a move was written and no status reply since has started with "Idle"
    ser_grbl,       \* "none", "open" or "closed"
    camera,         \* "none", "open" or "closed"
    closeCount,     \* calls of close_ports
    exit,           \* "running", or the exit status of the process
    fs,             \* the output directory and its stack sub-directories
    fs0,            \* the file system the script was started on
    filename        \* the last result of _acquire_filename: <<>> before the first call, then <<path, name>>

vars == <<mode, args, input_shutter, input_stack, pc, i, j, steps, tx, rx, trace, polls,
          inflight, ser_grbl, camera, closeCount, exit, fs, fs0, filename>>

config == <<mode, args, fs0>>

SendEvent(cmd) == [e |-> "send", arg |-> cmd]

IdleEvent == [e |-> "idle", arg |-> <<>>]

CaptureEvent(dir, name) == [e |-> "capture", arg |-> <<dir, name>>]

CloseEvent == [e |-> "close", arg |-> <<>>]

DefaultArg == IntNum(0)

\* the (x, y, z) requests drawn
Deltas ==
    { <<DefaultArg, DefaultArg, DefaultArg>>,
      <<ToFloat(IntNum(12)), DefaultArg, DefaultArg>>,
      <<ToFloat(IntNum(-12)), ToFloat(IntNum(12)), DefaultArg>>,
      <<ToFloat(IntNum(12)), ToFloat(IntNum(0)), ToFloat(IntNum(-12))>> }

MakeArgs(d, cam, ext, shutter, stack) ==
    [x |-> d[1], y |-> d[2], z |-> d[3], feedrate |-> FEEDRATE, picamera |-> cam,
     external_trigger |-> ext, shutter_count |-> shutter, stack_count |-> stack]

ShutterArgs == {<<>>} \cup {Some(n) : n \in 0..MaxShutter}

StackArgs == {<<>>} \cup {Some(n) : n \in 1..MaxStack}

Init ==
    /\ mode \in Modes
    /\ \E d \in Deltas, cam \in BOOLEAN, ext \in BOOLEAN :
          /\ mode \in {MODE_WAIT, MODE_DISABLE} => d = <<DefaultArg, DefaultArg, DefaultArg>> /\ ~cam
          /\ mode \in {MODE_VIDEO, MODE_BOUNCE} => ~cam
          /\ ext => mode \in {MODE_WAIT, MODE_MOVE} /\ d = <<DefaultArg, DefaultArg, DefaultArg>>
          /\ \E shutter \in ShutterArgs, stack \in StackArgs :
                /\ mode \notin {MODE_INTERVAL, MODE_MACRO} => IsNone(shutter)
                /\ mode # MODE_MACRO => IsNone(stack)
                /\ args = MakeArgs(d, cam, ext, shutter, stack)
    /\ input_shutter = args.shutter_count
    /\ input_stack = args.stack_count
    /\ fs \in (IF mode \in {MODE_INTERVAL, MODE_MACRO} THEN InitialFs ELSE {[d \in Dirs |-> NoDir]})
              \cup (IF mode = MODE_INTERVAL /\ args = MakeArgs(<<DefaultArg, DefaultArg, DefaultArg>>, args.picamera,
                                                                FALSE, Some(2), <<>>)
                    THEN FilledFs ELSE {})
    /\ fs0 = fs
    /\ filename = <<>>
    /\ pc = "start"
    /\ i = 0
    /\ j = 0
    /\ steps = <<>>
    /\ tx = <<>>
    /\ rx = Bytes(<<>>)
    /\ trace = <<>>
    /\ polls = 0
    /\ inflight = FALSE
    /\ ser_grbl = "none"
    /\ camera = "none"
    /\ closeCount = 0
    /\ exit = "running"

\* ---------------------------------------------------------- cleanup, exits
\* close_ports(), called with the trace tr built so far by the calling step
close_ports(tr) ==
    /\ ser_grbl' = (IF ser_grbl = "none" THEN "none" ELSE "closed")
    /\ camera' = (IF camera = "none" THEN "none" ELSE "closed")
    /\ closeCount' = closeCount + 1
    /\ trace' = Append(tr, CloseEvent)

\* an uncaught exception: global_except_hook closes the ports, the
\* interpreter prints the traceback and exits with status 1
global_except_hook(tr) ==
    /\ close_ports(tr)
    /\ pc' = "exited"
    /\ exit' = "1"

\* sys.exit(-1): SystemExit does not go through sys.excepthook
sys_exit_failure ==
    /\ pc' = "exited"
    /\ exit' = "255"
    /\ UNCHANGED <<ser_grbl, camera, closeCount>>

Written(o) == o.kind # "write_error"

\* the trace after _send_command(cmd) was called and its exchange yielded o
Logged(cmd, o) == IF Written(o) THEN Append(trace, SendEvent(cmd)) ELSE trace

\* a status reply that confirms idle, as the claims read it: its sanitised
\* text starts with "Idle"
AnswersIdle(o) == o.kind = "bytes" /\ StartsWith(Sanitize(o.data), IDLE)

\* ------------------------------------------------------------------ actions
\* lines 247-264: open the first serial port that answers
OpenPort ==
    /\ pc = "start"
    /\ \E found \in BOOLEAN :
          IF found
          THEN /\ ser_grbl' = "open"
               /\ pc' = "opened"
               /\ UNCHANGED <<exit, camera, closeCount>>
          ELSE /\ sys_exit_failure
    /\ UNCHANGED <<config, filename, input_shutter, input_stack, i, j, steps, tx, rx, trace, polls, inflight, fs>>

\* lines 266-272: disable mode
Disable ==
    /\ pc = "opened"
    /\ mode = MODE_DISABLE
    /\ \E o \in Outcomes(UNLOCK) :
          /\ tx' = UNLOCK
          /\ rx' = o
          /\ IF send_command(UNLOCK, o).raised
             THEN global_except_hook(Logged(UNLOCK, o))
             ELSE /\ close_ports(Logged(UNLOCK, o))
                  /\ pc' = "exited"
                  /\ exit' = "0"
    /\ UNCHANGED <<config, filename, input_shutter, input_stack, i, j, steps, polls, inflight, fs>>

\* lines 274-307: trigger port, output directory, camera
Prepare ==
    /\ pc = "opened"
    /\ mode # MODE_DISABLE
    /\ IF args.external_trigger
       THEN \* SERIAL_PORT_SHUTTER is not defined: NameError
            /\ global_except_hook(trace)
            /\ UNCHANGED <<fs, i>>
       ELSE \E made \in BOOLEAN, camok \in BOOLEAN :
            /\ fs' = IF made /\ ~fs[OutputDir].exists THEN [fs EXCEPT ![OutputDir] = EmptyDir] ELSE fs
            /\ IF ~args.picamera
               THEN /\ camok
                    /\ pc' = "setup"
                    /\ i' = 0
                    /\ UNCHANGED <<camera, ser_grbl, closeCount, exit, trace>>
               ELSE IF camok
               THEN /\ camera' = "open"
                    /\ pc' = "setup"
                    /\ i' = 0
                    /\ UNCHANGED <<ser_grbl, closeCount, exit, trace>>
               ELSE /\ global_except_hook(trace)
                    /\ UNCHANGED i
    /\ UNCHANGED <<config, filename, input_shutter, input_stack, j, steps, tx, rx, polls, inflight>>

\* lines 319-320: one iteration of the setup loop
Setup ==
    /\ pc = "setup"
    /\ LET cmd == grbl_setup_commands[i + 1] IN
       \E o \in Outcomes(cmd) :
          /\ tx' = cmd
          /\ rx' = o
          /\ IF send_command(cmd, o).raised
             THEN /\ global_except_hook(Logged(cmd, o))
                  /\ UNCHANGED i
             ELSE /\ trace' = Logged(cmd, o)
                  /\ IF i + 1 < Len(grbl_setup_commands)
                     THEN i' = i + 1 /\ pc' = pc
                     ELSE i' = 0 /\ pc' = "plan"
                  /\ UNCHANGED <<ser_grbl, camera, closeCount, exit>>
    /\ UNCHANGED <<config, filename, input_shutter, input_stack, j, steps, polls, inflight, fs>>

\* lines 324-342: interval planning
PlanInterval ==
    /\ pc = "plan"
    /\ mode = MODE_INTERVAL
    /\ IF IsNone(input_shutter) \/ input_shutter[1] <= 1
       THEN \* None <= 1 is a TypeError; otherwise "interval needs to be at least 2"
            /\ global_except_hook(trace)
            /\ UNCHANGED steps
       ELSE /\ steps' = interval_steps(args.x, args.y, args.z, input_shutter[1])
            /\ pc' = "move"
            /\ UNCHANGED <<ser_grbl, camera, closeCount, exit, trace>>
    /\ UNCHANGED <<config, filename, input_shutter, input_stack, i, j, tx, rx, polls, inflight, fs>>

\* lines 410-438: macro planning
PlanMacro ==
    /\ pc = "plan"
    /\ mode = MODE_MACRO
    /\ LET n == IF IsNone(input_shutter) \/ input_shutter[1] < 1 THEN 1 ELSE input_shutter[1] IN
       /\ input_shutter' = Some(n)
       /\ IF IsNone(input_stack) \/ input_stack[1] <= 1
          THEN /\ global_except_hook(trace)
               /\ UNCHANGED steps
          ELSE /\ steps' = macro_steps(args.x, args.y, args.z, n, input_stack[1])
               /\ pc' = "mkdir"
               /\ UNCHANGED <<ser_grbl, camera, closeCount, exit, trace>>
    /\ UNCHANGED <<config, filename, input_stack, i, j, tx, rx, polls, inflight, fs>>

\* lines 495-500, 517-533, 541-559: move, video and bounce build their commands
PlanSimple ==
    /\ pc = "plan"
    /\ mode \in {MODE_MOVE, MODE_VIDEO, MODE_BOUNCE}
    /\ pc' = "move"
    /\ UNCHANGED <<config, filename, input_shutter, input_stack, i, j, steps, tx, rx, trace, polls, inflight,
                   ser_grbl, camera, closeCount, exit, fs>>

\* wait mode closing the ports and then going on to the return to home
WaitMode_then_home ==
    /\ pc = "plan"
    /\ mode = MODE_WAIT
    /\ close_ports(trace)
    /\ pc' = "home"
    /\ UNCHANGED <<config, filename, input_shutter, input_stack, i, j, steps, tx, rx, polls, inflight, exit, fs>>

\* lines 507-515: wait mode sleeps and closes the ports
WaitMode ==
    /\ pc = "plan"
    /\ mode = MODE_WAIT
    /\ close_ports(trace)
    /\ pc' = "close"
    /\ UNCHANGED <<config, filename, input_shutter, input_stack, i, j, steps, tx, rx, polls, inflight, exit, fs>>

\* the capture loop running over all input_shutter + 1 entries of steps
shutter_loop_one_more(k) == k + 1 < input_shutter[1] + 1

\* "for i in range(0, input_shutter)": another iteration follows iteration k
shutter_loop_continues(k) == k + 1 < input_shutter[1]

\* "for j in range(0, input_stack)": another iteration follows iteration k
stack_loop_continues(k) == k + 1 < input_stack[1]

\* the move command of the current step
move_cmd ==
    CASE mode = MODE_INTERVAL -> MoveCmd(steps[i + 1][1], steps[i + 1][2], steps[i + 1][3], FEEDRATE_SLOW)
      [] mode = MODE_MACRO -> MoveCmd(steps[i + 1][1][j + 1], steps[i + 1][2], steps[i + 1][3], FEEDRATE_SLOW)
      [] mode = MODE_MOVE -> MoveCmd(ToFloat(args.x), ToFloat(args.y), ToFloat(args.z), FEEDRATE)
      [] mode = MODE_VIDEO -> JoinedMoveCmd(args.x, args.y, args.z, args.feedrate)
      [] OTHER -> bounce_cmds(args.x, args.y, args.z, args.feedrate)[i + 1]

\* lines 349-351, 457-459, 500-501, 535, 562: send the move of the current step
Move ==
    /\ pc = "move"
    /\ \E o \in Outcomes(move_cmd) :
          /\ tx' = move_cmd
          /\ rx' = o
          /\ inflight' = (inflight \/ Written(o))
          /\ IF send_command(move_cmd, o).raised
             THEN /\ global_except_hook(Logged(move_cmd, o))
                  /\ UNCHANGED polls
             ELSE /\ trace' = Logged(move_cmd, o)
                  /\ pc' = "wait"
                  /\ polls' = 0
                  /\ UNCHANGED <<ser_grbl, camera, closeCount, exit>>
    /\ UNCHANGED <<config, filename, input_shutter, input_stack, i, j, steps, fs>>

\* where the script continues when wait_for_idle returns
after_idle ==
    IF pc = "homewait" THEN pc' = "close" /\ UNCHANGED i
    ELSE IF mode \in {MODE_INTERVAL, MODE_MACRO} THEN pc' = "capture" /\ UNCHANGED i
    ELSE IF mode = MODE_BOUNCE /\ i + 1 < Len(bounce_cmds(args.x, args.y, args.z, args.feedrate))
    THEN pc' = "move" /\ i' = i + 1
    ELSE pc' = "close" /\ UNCHANGED i

\* lines 127-136: one iteration of the loop of wait_for_idle
Poll ==
    /\ pc \in {"wait", "homewait"}
    /\ \E o \in Outcomes(QUERY) :
          /\ tx' = QUERY
          /\ rx' = o
          /\ polls' = (IF Written(o) /\ polls < MaxPolls THEN polls + 1 ELSE polls)
          /\ inflight' = (inflight /\ ~AnswersIdle(o))
          /\ LET r == send_command(QUERY, o) IN
             IF r.raised /\ ~except_Exception(r.err)
             THEN /\ global_except_hook(trace)
                  /\ UNCHANGED i
             ELSE IF wait_for_idle_done(r)
             THEN /\ trace' = Append(trace, IdleEvent)
                  /\ after_idle
                  /\ UNCHANGED <<ser_grbl, camera, closeCount, exit>>
             ELSE UNCHANGED <<pc, i, trace, ser_grbl, camera, closeCount, exit>>
    /\ UNCHANGED <<config, filename, input_shutter, input_stack, j, steps, fs>>

\* lines 444-453: the stack directory of outer step i
MkStackDir ==
    /\ pc = "mkdir"
    /\ \E made \in BOOLEAN :
          fs' = IF fs[OutputDir].exists /\ ~fs[StackDir(i)].exists /\ made
                THEN [fs EXCEPT ![StackDir(i)] = EmptyDir]
                ELSE fs
    /\ j' = 0
    /\ pc' = "move"
    /\ UNCHANGED <<config, filename, input_shutter, input_stack, i, steps, tx, rx, trace, polls, inflight,
                   ser_grbl, camera, closeCount, exit>>

AddFile(dir, name) == [fs EXCEPT ![dir].files = @ \cup {name}]

\* lines 375-397: the capture of interval step i
CaptureInterval ==
    /\ pc = "capture"
    /\ mode = MODE_INTERVAL
    /\ filename' = <<OutputDir, acquire_filename(fs[OutputDir].files)>>
    /\ LET name == filename'[2]
           shot == Append(trace, CaptureEvent(OutputDir, name))
           stored == /\ fs' = AddFile(OutputDir, name[1])
                     /\ trace' = shot
                     /\ IF shutter_loop_continues(i)
                        THEN i' = i + 1 /\ pc' = "move"
                        ELSE i' = i /\ pc' = "home"
                     /\ UNCHANGED <<ser_grbl, camera, closeCount, exit>>
       IN  IF args.picamera
           THEN IF IsNone(name)
                THEN \* os.path.join(path, None) is a TypeError
                     global_except_hook(trace) /\ UNCHANGED <<fs, i>>
                ELSE \E camok \in BOOLEAN :
                     IF camok /\ fs[OutputDir].exists
                     THEN stored
                     ELSE global_except_hook(shot) /\ UNCHANGED <<fs, i>>
           ELSE \E gphoto \in {"ok", "failed", "missing"} :
                     IF gphoto = "ok" /\ ~IsNone(name) /\ fs[OutputDir].exists
                     THEN stored
                     ELSE global_except_hook(shot) /\ UNCHANGED <<fs, i>>
    /\ UNCHANGED <<config, input_shutter, input_stack, j, steps, tx, rx, polls, inflight>>

\* lines 465-482: the capture of inner step j of outer step i
CaptureMacro ==
    /\ pc = "capture"
    /\ mode = MODE_MACRO
    /\ filename' = <<StackDir(i), acquire_filename(fs[StackDir(i)].files)>>
    /\ LET name == filename'[2]
           shot == Append(trace, CaptureEvent(StackDir(i), name))
       IN  IF ~args.picamera
           THEN \* "gphoto not supported in macro mode yet": sys.exit(-1)
                sys_exit_failure /\ UNCHANGED <<fs, i, j, trace>>
           ELSE IF IsNone(name)
           THEN global_except_hook(trace) /\ UNCHANGED <<fs, i, j>>
           ELSE \E camok \in BOOLEAN :
                IF camok /\ fs[StackDir(i)].exists
                THEN /\ fs' = AddFile(StackDir(i), name[1])
                     /\ trace' = shot
                     /\ IF stack_loop_continues(j)
                        THEN j' = j + 1 /\ i' = i /\ pc' = "move"
                        ELSE IF shutter_loop_continues(i)
                        THEN j' = j /\ i' = i + 1 /\ pc' = "mkdir"
                        ELSE j' = j /\ i' = i /\ pc' = "home"
                     /\ UNCHANGED <<ser_grbl, camera, closeCount, exit>>
                ELSE global_except_hook(shot) /\ UNCHANGED <<fs, i, j>>
    /\ UNCHANGED <<config, input_shutter, input_stack, steps, tx, rx, polls, inflight>>

\* lines 399-404, 484-489: return to home
Home ==
    /\ pc = "home"
    /\ \E o \in Outcomes(HomeCmd) :
          /\ tx' = HomeCmd
          /\ rx' = o
          /\ inflight' = (inflight \/ Written(o))
          /\ IF send_command(HomeCmd, o).raised
             THEN /\ global_except_hook(Logged(HomeCmd, o))
                  /\ UNCHANGED polls
             ELSE /\ trace' = Logged(HomeCmd, o)
                  /\ pc' = "homewait"
                  /\ polls' = 0
                  /\ UNCHANGED <<ser_grbl, camera, closeCount, exit>>
    /\ UNCHANGED <<config, filename, input_shutter, input_stack, i, j, steps, fs>>

\* lines 570-571: the final close_ports, then the script ends
Close ==
    /\ pc = "close"
    /\ close_ports(trace)
    /\ pc' = "exited"
    /\ exit' = "0"
    /\ UNCHANGED <<config, filename, input_shutter, input_stack, i, j, steps, tx, rx, polls, inflight, fs>>

\* SIGINT outside a serial read: KeyboardInterrupt reaches sys.excepthook
Interrupt ==
    /\ pc # "exited"
    /\ global_except_hook(trace)
    /\ UNCHANGED <<config, filename, input_shutter, input_stack, i, j, steps, tx, rx, polls, inflight, fs>>

\* SIGTERM: no handler is installed, the process ends at once
Terminate ==
    /\ pc # "exited"
    /\ pc' = "exited"
    /\ exit' = "SIGTERM"
    /\ UNCHANGED <<config, filename, input_shutter, input_stack, i, j, steps, tx, rx, trace, polls, inflight,
                   ser_grbl, camera, closeCount, fs>>

Next ==
    \/ OpenPort
    \/ Disable
    \/ Prepare
    \/ Setup
    \/ PlanInterval
    \/ PlanMacro
    \/ PlanSimple
    \/ WaitMode
    \/ Move
    \/ Poll
    \/ MkStackDir
    \/ CaptureInterval
    \/ CaptureMacro
    \/ Home
    \/ Close
    \/ Interrupt
    \/ Terminate

Spec == Init /\ [][Next]_vars

\* ================================================================== claims
Last(sq) == sq[Len(sq)]

IsPrefix(p, sq) == Len(p) <= Len(sq) /\ SubSeq(sq, 1, Len(p)) = p

\* a command that moves the axes: "G1 X..." (the feed rate setting "G1 F..." does not)
IsMoveCmd(c) == StartsWith(c, G1 \o <<" ", "X">>)

IsMoveEvent(ev) == ev.e = "send" /\ IsMoveCmd(ev.arg)

IsSendEvent(ev) == ev.e = "send"

IsCaptureEvent(ev) == ev.e = "capture"

\* the first event this step adds to the trace, if it adds one
StepAdds(P(_)) == Len(trace') > Len(trace) /\ P(trace'[Len(trace) + 1])

\* the commands written so far, in order
SentCmds == [k \in 1..Len(SelectSeq(trace, IsSendEvent)) |-> SelectSeq(trace, IsSendEvent)[k].arg]

MovesSent == [k \in 1..Len(SelectSeq(trace, IsMoveEvent)) |-> SelectSeq(trace, IsMoveEvent)[k].arg]

Captures == SelectSeq(trace, IsCaptureEvent)

\* the move commands of the run in plan order: the steps of the mode, then
\* the return to origin for interval and macro
PlanOrder ==
    CASE mode = MODE_INTERVAL ->
            [k \in 1..input_shutter[1] |-> MoveCmd(steps[k][1], steps[k][2], steps[k][3], FEEDRATE_SLOW)]
            \o <<HomeCmd>>
      [] mode = MODE_MACRO ->
            [k \in 1..(input_shutter[1] * input_stack[1]) |->
                LET oi == ((k - 1) \div input_stack[1]) + 1
                    ii == ((k - 1) % input_stack[1]) + 1
                IN  MoveCmd(steps[oi][1][ii], steps[oi][2], steps[oi][3], FEEDRATE_SLOW)]
            \o <<HomeCmd>>
      [] mode = MODE_MOVE -> <<MoveCmd(ToFloat(args.x), ToFloat(args.y), ToFloat(args.z), FEEDRATE)>>
      [] mode = MODE_VIDEO -> <<JoinedMoveCmd(args.x, args.y, args.z, args.feedrate)>>
      [] mode = MODE_BOUNCE -> <<JoinedMoveCmd(args.x, args.y, args.z, args.feedrate), BounceHomeCmd(args.feedrate)>>
      [] OTHER -> <<>>

\* C1: in every moving mode, once a move command has been written, no
\* further move command is written and no capture is performed before a
\* status query issued after that move was answered with a text starting
\* with "Idle"; and the moves written are, in order, a prefix of the plan.
C1_MoveThenIdleThenNext ==
    /\ [][(StepAdds(IsMoveEvent) \/ StepAdds(IsCaptureEvent)) => ~inflight]_vars
    /\ [](MovesSent # <<>> => IsPrefix(MovesSent, PlanOrder))

\* C1 witness: a bounce run wrote its second move after the first was confirmed idle
C1_Witness ==
    /\ mode = MODE_BOUNCE
    /\ Len(MovesSent) = 2
    /\ Len(SelectSeq(trace, LAMBDA ev : ev = IdleEvent)) = 2
    /\ pc = "close"

\* the sanitised reply to cmd, its echo stripped, does not start with "ok"
NotOkReply(cmd, o) ==
    /\ o.kind = "bytes"
    /\ LET text == Sanitize(o.data)
           rest == IF StartsWith(text, cmd) THEN Drop(text, Len(cmd)) ELSE text
       IN  ~StartsWith(rest, OK)

\* C2: on every exit path after the serial connection was opened (normal
\* completion, uncaught error, explicit failure exit, interrupt), close_ports
\* has run exactly once.
C2_CleanupExactlyOnce ==
    (pc = "exited" /\ ser_grbl # "none" /\ exit # "SIGTERM") => closeCount = 1

\* C3: when the last exchange was a move command whose reply is not "ok",
\* the run is over: the process has exited with failure and the only thing
\* that followed the move in the trace is the cleanup (no command, no
\* status query, no capture).
C3_RejectedMoveAborts ==
    (IsMoveCmd(tx) /\ NotOkReply(tx, rx)) =>
        /\ pc = "exited"
        /\ exit = "1"
        /\ ser_grbl = "closed"
        /\ Len(trace) >= 2
        /\ trace[Len(trace) - 1] = SendEvent(tx)
        /\ Last(trace) = CloseEvent

\* C3 witness: the second interval move was answered "error:9" and the run ended
C3_Witness ==
    /\ mode = MODE_INTERVAL
    /\ pc = "exited"
    /\ i = 1
    /\ IsMoveCmd(tx)
    /\ rx = Bytes(<<"e","r","r","o","r",":","9", CR, LF>>)
    /\ Last(trace) = CloseEvent

WaitPcs == {"wait", "homewait"}

\* a step of the polling loop that made an exchange
PollStep == pc \in WaitPcs /\ tx' = QUERY /\ <<tx, rx, polls>> # <<tx', rx', polls'>>

RECURSIVE TakeToken(_)
TakeToken(sq) ==
    IF sq = <<>> \/ Head(sq) \in {"|", ">", ",", ":", CR, LF} THEN <<>>
    ELSE <<Head(sq)>> \o TakeToken(Tail(sq))

\* the leading status token of a raw status report "<Token|...>"
LeadingToken(raw) == TakeToken(IF raw # <<>> /\ Head(raw) = "<" THEN Tail(raw) ELSE raw)

\* C4: wait_for_idle returns on a status reply if and only if the leading
\* status token of that reply is exactly "Idle" (not on "Idlewait", not on
\* "Idle" after another token).
C4_ReturnsIffExactlyIdle ==
    [][(PollStep /\ rx'.kind = "bytes") =>
          ((trace' = Append(trace, IdleEvent)) <=> (LeadingToken(rx'.data) = IDLE))]_vars

\* a failed status query: serial I/O exception, undecodable bytes, or an
\* empty reply (timeout, or a frame of which sanitisation leaves nothing)
PollFailed(o) ==
    \/ o.kind \in {"write_error", "read_error", "decode_error"}
    \/ o.kind = "bytes" /\ Sanitize(o.data) = <<>>

\* C5: a failed status query inside wait_for_idle is swallowed: the script
\* stays in the loop, nothing is closed, the process keeps running; the loop
\* can always send another query, whatever the number of retries; a reply
\* starting with "Idle" ends the loop, and nothing else does short of the
\* process ending.
C5_PollFailuresSwallowed ==
    /\ [][(PollStep /\ PollFailed(rx')) =>
             (pc' = pc /\ exit' = "running" /\ closeCount' = closeCount /\ ser_grbl' = "open" /\ trace' = trace)]_vars
    /\ [][(PollStep /\ AnswersIdle(rx')) => (pc' \notin WaitPcs /\ trace' = Append(trace, IdleEvent))]_vars
    /\ [][(pc \in WaitPcs /\ pc' # pc) => (AnswersIdle(rx') \/ pc' = "exited")]_vars
    /\ [](pc \in WaitPcs => ENABLED Poll)

\* C5 witness: still polling after MaxPolls queries, the last of which raised a serial exception
C5_Witness ==
    /\ pc = "wait"
    /\ polls = MaxPolls
    /\ tx = QUERY
    /\ rx = ReadError
    /\ exit = "running"

\* C6: a cancellation signal (interrupt or termination) arriving while
\* wait_for_idle polls ends the polling, runs the cleanup (close_ports: serial
\* connection and camera closed) and terminates the process.
C6_SignalForcesCleanup ==
    [][(pc \in WaitPcs /\ pc' = "exited") =>
          (closeCount' = closeCount + 1 /\ ser_grbl' = "closed" /\ Last(trace') = CloseEvent)]_vars

\* b = a * k / m, for a requested delta a and naturals k, m with m >= 1
IsScaled(b, a, k, m) ==
    \/ a.n * k = 0 /\ b.n = 0
    \/ a.n * k # 0 /\ b.neg = a.neg /\ b.n * a.d * m = a.n * k * b.d

IsOrigin(pos) == pos[1].n = 0 /\ pos[2].n = 0 /\ pos[3].n = 0

\* position k (0-based) of an interval plan for count n is delta * k / (n - 1)
IntervalPosition(pos, k, n) ==
    /\ IsScaled(pos[1], args.x, k, n - 1)
    /\ IsScaled(pos[2], args.y, k, n - 1)
    /\ IsScaled(pos[3], args.z, k, n - 1)

\* the moves of the interval steps written so far (the return home excluded)
StepMovesSent == SelectSeq(MovesSent, LAMBDA c : c # HomeCmd)

IntervalPlanned == mode = MODE_INTERVAL /\ steps # <<>>

\* C7 as stated: for a count N >= 2 interval planning produces exactly N
\* steps, step i at delta * i / (N - 1), step 0 the origin, step N - 1 the
\* full delta; no position beyond index N - 1 is in the plan or commanded.
C7_ExactlyNSteps ==
    IntervalPlanned =>
        LET n == input_shutter[1] IN
        /\ Len(steps) = n
        /\ \A k \in 1..Len(steps) : IntervalPosition(steps[k], k - 1, n)
        /\ Len(StepMovesSent) <= n

\* C7 amended: interval planning computes N + 1 positions, entry i at
\* delta * i / (N - 1) for i in 0..N; entry 0 is the origin, entry N - 1 the
\* full delta; only the entries 0..N-1 are commanded, in order, and entry N
\* never is.
C7_PlanHasOneSpareStep ==
    IntervalPlanned =>
        LET n == input_shutter[1] IN
        /\ n >= 2
        /\ Len(steps) = n + 1
        /\ \A k \in 1..(n + 1) : IntervalPosition(steps[k], k - 1, n)
        /\ IsOrigin(steps[1])
        /\ NumEq(steps[n][1], args.x) /\ NumEq(steps[n][2], args.y) /\ NumEq(steps[n][3], args.z)
        /\ Len(StepMovesSent) <= n
        /\ \A k \in 1..Len(StepMovesSent) :
              StepMovesSent[k] = MoveCmd(steps[k][1], steps[k][2], steps[k][3], FEEDRATE_SLOW)

\* C7 witness: an interval run over three steps with a non-zero request has commanded all three
C7_Witness ==
    /\ IntervalPlanned
    /\ input_shutter = Some(3)
    /\ args.x.n # 0
    /\ Len(StepMovesSent) = 3
    /\ pc = "homewait"

\* the return-to-origin move, as the claims word it: a move to (0, 0, 0)
OriginMove == <<"G", "1", " ", "X", "0", " ", "Y", "0", " ", "Z", "0">>

\* what an event is, the file name of a capture left out
Kind(ev) == IF ev.e = "capture" THEN <<"capture", ev.arg[1]>> ELSE <<ev.e, ev.arg>>

Shape(tr) == [k \in 1..Len(tr) |-> Kind(tr[k])]

NSetup == Len(grbl_setup_commands)

SetupShape == [k \in 1..NSetup |-> <<"send", grbl_setup_commands[k]>>]

HomingShape == << <<"send", OriginMove>>, <<"idle", <<>>>>, <<"close", <<>>>> >>

\* n rounds of (move to step k, idle, capture into the output directory)
IntervalRounds(n) ==
    [k \in 1..(3 * n) |->
        LET step == steps[((k - 1) \div 3) + 1] IN
        CASE (k - 1) % 3 = 0 -> <<"send", MoveCmd(step[1], step[2], step[3], FEEDRATE_SLOW)>>
          [] (k - 1) % 3 = 1 -> <<"idle", <<>>>>
          [] OTHER -> <<"capture", OutputDir>>]

Succeeded == pc = "exited" /\ exit = "0"

\* C8: a successful interval run with count N consists, after the setup,
\* of exactly N rounds of (move to step i, wait for idle, one capture),
\* i = 0..N-1 in order, then one move to the origin and a wait for idle,
\* and nothing but the closing after that; a successful macro run ends
\* with the same homing step right after its last capture.
C8_RoundsThenHoming ==
    /\ (Succeeded /\ mode = MODE_INTERVAL) =>
          Shape(trace) = SetupShape \o IntervalRounds(args.shutter_count[1]) \o HomingShape
    /\ (Succeeded /\ mode = MODE_MACRO) =>
          /\ Len(trace) >= 4
          /\ trace[Len(trace) - 3].e = "capture"
          /\ SubSeq(Shape(trace), Len(trace) - 2, Len(trace)) = HomingShape
          /\ Len(SelectSeq(trace, LAMBDA ev : ev = SendEvent(OriginMove))) = 1

\* C8 witness: an interval run of three rounds has finished successfully
C8_Witness ==
    /\ Succeeded
    /\ mode = MODE_INTERVAL
    /\ args.shutter_count = Some(3)
    /\ Len(Captures) = 3

\* the shutter count macro mode works with: missing or below 1 counts as 1
MacroN == IF IsNone(args.shutter_count) \/ args.shutter_count[1] < 1 THEN 1 ELSE args.shutter_count[1]

MacroS == args.stack_count[1]

\* N * S rounds of (move to inner step j of outer step i, idle, capture into stack_i)
MacroRounds(n, s) ==
    [k \in 1..(3 * n * s) |->
        LET r == (k - 1) \div 3
            oi == r \div s
            ii == r % s
        IN  CASE (k - 1) % 3 = 0 ->
                    <<"send", MoveCmd(steps[oi + 1][1][ii + 1], steps[oi + 1][2], steps[oi + 1][3], FEEDRATE_SLOW)>>
              [] (k - 1) % 3 = 1 -> <<"idle", <<>>>>
              [] OTHER -> <<"capture", StackDir(oi)>>]

\* C9: a full macro run with stack count S >= 2 and shutter count N >= 1
\* visits, for each outer position i = 0..N-1 (Y, Z at y * i / (N - 1),
\* z * i / (N - 1), or 0 when N = 1), the S inner X positions
\* x * j / (S - 1), j = 0..S-1, with one capture at each: N * S captures,
\* each leaving its own file.
C9_MacroVisitsNTimesS ==
    (Succeeded /\ mode = MODE_MACRO) =>
        /\ MacroS >= 2
        /\ Shape(trace) = SetupShape \o MacroRounds(MacroN, MacroS) \o HomingShape
        /\ \A oi \in 0..(MacroN - 1) :
              /\ IsScaled(steps[oi + 1][2], args.y, IF MacroN = 1 THEN 0 ELSE oi, IF MacroN = 1 THEN 1 ELSE MacroN - 1)
              /\ IsScaled(steps[oi + 1][3], args.z, IF MacroN = 1 THEN 0 ELSE oi, IF MacroN = 1 THEN 1 ELSE MacroN - 1)
              /\ \A ii \in 0..(MacroS - 1) : IsScaled(steps[oi + 1][1][ii + 1], args.x, ii, MacroS - 1)
        /\ Len(Captures) = MacroN * MacroS
        /\ Cardinality({Captures[k].arg : k \in 1..Len(Captures)}) = MacroN * MacroS
        /\ \A k \in 1..Len(Captures) : Captures[k].arg[2][1] \in fs[Captures[k].arg[1]].files

\* C9 witness: a macro run of two stacks of three images has finished successfully
C9_Witness ==
    /\ Succeeded
    /\ mode = MODE_MACRO
    /\ args.shutter_count = Some(2)
    /\ args.stack_count = Some(3)
    /\ args.x.n # 0
    /\ Len(Captures) = 6

\* the unlock command, as the claim words it
UnlockText == <<"$", "X">>

\* C10: in disable mode the only command ever written is "$X", at most
\* once; the script never reaches the setup, a move, a status query or a
\* capture; a run that ends normally has written exactly that one command
\* and closed its resources once, and an "ok" answer to it ends the run
\* with success status.
C10_DisableSendsOneCommand ==
    mode = MODE_DISABLE =>
        /\ IsPrefix(SentCmds, <<UnlockText>>)
        /\ polls = 0 /\ tx # QUERY
        /\ Captures = <<>>
        /\ pc \in {"start", "opened", "exited"}
        /\ Succeeded => /\ trace = <<SendEvent(UnlockText), CloseEvent>>
                        /\ closeCount = 1
                        /\ ser_grbl = "closed"
        /\ (tx # <<>> /\ rx.kind = "bytes" /\ ~NotOkReply(tx, rx)) => Succeeded

\* C10 witness: the unlock command was answered "ok" and the run ended with success
C10_Witness ==
    /\ mode = MODE_DISABLE
    /\ Succeeded
    /\ tx = UnlockText
    /\ rx = Bytes(OK \o <<CR, LF>>)


\* ------------------------------------------------------ filename allocation
\* the k-th candidate as the claims name it: four digits, zero-padded, ".jpg"
CandidateName(k) ==
    <<DigitChars[((k \div 1000) % 10) + 1], DigitChars[((k \div 100) % 10) + 1],
      DigitChars[((k \div 10) % 10) + 1], DigitChars[(k % 10) + 1], ".", "j", "p", "g">>

DigitValue(c) == CHOOSE v \in 0..9 : DigitChars[v + 1] = c

\* the number a candidate name stands for
CandidateNumber(name) ==
    1000 * DigitValue(name[1]) + 100 * DigitValue(name[2]) + 10 * DigitValue(name[3]) + DigitValue(name[4])

IsCandidate(name) ==
    /\ Len(name) = 8
    /\ \A k \in 1..4 : name[k] \in Digits
    /\ name = CandidateName(CandidateNumber(name))

\* this step called the allocator
AllocatorRan == filename' # filename

\* the names present in the directory the allocator was called on, at call time
PresentAtCall == fs[filename'[1]].files

\* the name the allocator returned, <<>> when it returned none
Allocated == filename'[2]

\* C11: for every directory content the allocator returns the lowest-numbered
\* candidate 0000.jpg .. 9999.jpg that does not exist in the directory at call
\* time, and never a name that exists; with 0000..0041 present it returns
\* 0042; the allocator creates no file itself (the only file the step may add
\* is the captured one, under the allocated name).
C11_LowestFreeCandidate ==
    [][AllocatorRan =>
          /\ Allocated # <<>> =>
                /\ IsCandidate(Allocated[1])
                /\ Allocated[1] \notin PresentAtCall
                /\ \A m \in 0..(CandidateNumber(Allocated[1]) - 1) : CandidateName(m) \in PresentAtCall
          /\ Allocated = <<>> => \A k \in 0..9999 : CandidateName(k) \in PresentAtCall
          /\ PresentAtCall = {CandidateName(k) : k \in 0..41} => Allocated = <<CandidateName(42)>>
          /\ \A d \in DOMAIN fs :
                fs'[d].files \subseteq
                    fs[d].files \cup (IF d = filename'[1] /\ Allocated # <<>> THEN {Allocated[1]} ELSE {})
      ]_vars

\* C12: the allocator considers all 10000 candidates: when only 9999 is free
\* it returns 9999, and when all 10000 exist it returns no name, the caller
\* detects that and the run aborts (cleanup, failure status) without the
\* capture action having been invoked.
C12_AllCandidatesConsidered ==
    [][AllocatorRan =>
          /\ (CandidateName(9999) \notin PresentAtCall /\ \A k \in 0..9998 : CandidateName(k) \in PresentAtCall)
                => Allocated = <<CandidateName(9999)>>
          /\ (\A k \in 0..9999 : CandidateName(k) \in PresentAtCall)
                => /\ Allocated = <<>>
                   /\ ~StepAdds(IsCaptureEvent)
                   /\ pc' = "exited" /\ exit' = "1" /\ closeCount' = closeCount + 1
      ]_vars

\* ------------------------------------------------------------ reply parsing
\* the sanitised reply to cmd with a leading echo of cmd removed
AfterEcho(cmd, o) ==
    IF StartsWith(Sanitize(o.data), cmd) THEN Drop(Sanitize(o.data), Len(cmd)) ELSE Sanitize(o.data)

\* the last exchange was a command other than the status query and bytes came back
CommandAnswered == tx # <<>> /\ tx # QUERY /\ rx.kind = "bytes" /\ Sanitize(rx.data) # <<>>

\* C13: for every command other than the status query whose sanitised reply
\* (echo removed) begins with "ok", _send_command returns exactly the text
\* after the two characters "ok", and None when nothing follows; for any other
\* non-empty reply it raises.
C13_ReturnsTextAfterOk ==
    CommandAnswered =>
        IF StartsWith(AfterEcho(tx, rx), <<"o", "k">>)
        THEN /\ ~send_command(tx, rx).raised
             /\ send_command(tx, rx).ret =
                    (IF Len(AfterEcho(tx, rx)) = 2 THEN <<>> ELSE <<SubSeq(AfterEcho(tx, rx), 3, Len(AfterEcho(tx, rx)))>>)
        ELSE send_command(tx, rx).raised

\* the characters the claim lets through for a reply to cmd: the dollar sign
\* only for the status query
KeptFor(cmd) == Letters \cup Digits \cup {"_", " ", "."} \cup (IF cmd = QUERY THEN {"$"} ELSE {})

\* the characters let through for every command
KeptAlways == Letters \cup Digits \cup {"_", " ", ".", "$"}

Filter(s, kept) == SelectSeq(s, LAMBDA c : c \in kept)

\* text, with a leading echo of cmd removed, begins with "ok"
ParsesOk(cmd, text) ==
    IF StartsWith(text, cmd)
    THEN StartsWith(SubSeq(text, Len(cmd) + 1, Len(text)), <<"o", "k">>)
    ELSE StartsWith(text, <<"o", "k">>)

\* this step wrote a command other than the status query and read bytes back
CommandStep == StepAdds(IsSendEvent) /\ rx'.kind = "bytes"

\* C14 as stated: the reply to a command other than the status query is
\* accepted exactly if, with every character outside letters, digits,
\* underscore, space and period removed (the dollar sign too), it parses as ok.
C14_DollarOnlyForStatus ==
    [][CommandStep => ((exit' # "1") <=> ParsesOk(tx', Filter(rx'.data, KeptFor(tx'))))]_vars

\* C14 amended: every character outside letters, digits, underscore, space,
\* period and dollar sign is removed from the reply to any command before the
\* "ok" test: the reply is accepted exactly if what remains parses as ok, and
\* a reply with such noise has the same result as the noise-free reply.
C14_NoiseRemovedBeforeOkTest ==
    [][CommandStep =>
          /\ (exit' # "1") <=> ParsesOk(tx', Filter(rx'.data, KeptAlways))
          /\ send_command(tx', rx') = send_command(tx', Bytes(Filter(rx'.data, KeptAlways)))
      ]_vars

\* C14 witness: a move answered "<o:k>" was accepted and the run waits for idle
C14_Witness ==
    /\ IsMoveCmd(tx)
    /\ rx = Bytes(<<"<", "o", ":", "k", ">", CR, LF>>)
    /\ pc = "wait"
    /\ exit = "running"

\* ------------------------------------------------- validation, setup, errors
\* the count the mode needs is missing or at most 1
InvalidCount ==
    \/ mode = MODE_INTERVAL /\ (IsNone(args.shutter_count) \/ args.shutter_count[1] <= 1)
    \/ mode = MODE_MACRO /\ (IsNone(args.stack_count) \/ args.stack_count[1] <= 1)

\* C15: an interval run with a shutter count that is missing or at most 1, and
\* a macro run with a stack count that is missing or at most 1, is rejected
\* before any hardware interaction: no command, not even a setup command, is
\* ever written in such a run.
C15_InvalidCountSendsNothing == InvalidCount => SentCmds = <<>> /\ tx = <<>>

\* the four setup commands as the claim lists them
SetupText ==
    << <<"G", "9", "0">>,
       <<"G", "2", "1">>,
       <<"G","1","0"," ","P","0"," ","L","2","0"," ","X","0"," ","Y","0"," ","Z","0">>,
       <<"G","1"," ","F","1","0","0","0">> >>

\* C16: in every mode other than disable the commands written begin with
\* G90, G21, G10 P0 L20 X0 Y0 Z0, G1 F1000 in this order, all four before the
\* first move and before anything else the run does after the setup; a setup
\* command answered with an empty or non-ok reply is the last command of the
\* run: the run is aborted (cleanup, failure status) and neither a later setup
\* command nor a move is written.
C16_SetupInOrderBeforeMoves ==
    mode # MODE_DISABLE =>
        /\ IsPrefix(SentCmds, SetupText) \/ IsPrefix(SetupText, SentCmds)
        /\ \A k \in 1..Len(SentCmds) : IsMoveCmd(SentCmds[k]) => k > 4
        /\ pc \notin {"start", "opened", "setup", "exited"} => IsPrefix(SetupText, SentCmds)
        /\ (Len(SentCmds) \in 1..4 /\ tx = Last(SentCmds) /\ NotOkReply(tx, rx)) =>
              /\ pc = "exited" /\ exit = "1" /\ closeCount = 1
              /\ trace = [k \in 1..Len(SentCmds) |-> SendEvent(SetupText[k])] \o <<CloseEvent>>

\* C16 witness: the third setup command was rejected after two were accepted
C16_Witness ==
    /\ mode = MODE_MOVE
    /\ SentCmds = SubSeq(SetupText, 1, 3)
    /\ tx = SetupText[3]
    /\ rx = Bytes(<<"e","r","r","o","r",":","9", CR, LF>>)
    /\ pc = "exited"

\* this step ran a setup, move, homing or unlock command and the exchange
\* failed: an error of the serial library or of the decoding, or a reply
\* that is empty or not ok
CommandFailed ==
    /\ pc \in {"opened", "setup", "move", "home"}
    /\ <<tx', rx'>> # <<tx, rx>>
    /\ \/ rx'.kind \in {"write_error", "read_error", "decode_error"}
       \/ NotOkReply(tx', rx')

\* this step ran a capture and stored no file: no filename left, the capture
\* mechanism failed or is not supported, or its output file is missing
CaptureFailed == pc = "capture" /\ AllocatorRan /\ fs' = fs

\* this step was to create the stack directory and created none
StackDirFailed == pc = "mkdir" /\ fs' = fs /\ exit' # "SIGTERM"

\* the step ended the run: cleanup ran and the exit status is not zero
AbortsWithCleanup == pc' = "exited" /\ exit' \notin {"running", "0"} /\ closeCount' = closeCount + 1

\* C17: outside the idle-polling loop no error is recovered locally: a failed
\* setup, move, homing or unlock command, a failed capture (no filename, no
\* output file, unsupported mechanism) and a stack directory that could not be
\* created each stop the run in that step, with the cleanup run and a
\* non-zero exit status.
C17_OtherErrorsAbortWithCleanup ==
    [][(CommandFailed \/ CaptureFailed \/ StackDirFailed) => AbortsWithCleanup]_vars

\* ------------------------------------------------------------- stored files
\* the sub-directory of outer step k as the claim names it
StackPath(k) == <<"output_dir", <<"s", "t", "a", "c", "k", "_", DigitChars[k + 1]>>>>

NoStacksAtStart == fs0[<<"output_dir">>].exists /\ \A d \in DOMAIN fs0 : d # <<"output_dir">> => ~fs0[d].exists

\* C18: in a macro run with stack count S the k-th capture (k = 1, 2, ..)
\* belongs to outer step (k - 1) \div S and is stored in the sub-directory
\* stack_<that step> and nowhere else; after a successful run with N outer
\* steps that started on an output directory without stack sub-directories
\* the sub-directories that exist are exactly stack_0 .. stack_<N-1>, and the
\* files of each are exactly 0000.jpg .. <S-1>.jpg.
C18_StackPerOuterStep ==
    mode = MODE_MACRO =>
        /\ \A k \in 1..Len(Captures) : Captures[k].arg[1] = StackPath((k - 1) \div MacroS)
        /\ (Succeeded /\ NoStacksAtStart) =>
              /\ {d \in DOMAIN fs : d # <<"output_dir">> /\ fs[d].exists} = {StackPath(k) : k \in 0..(MacroN - 1)}
              /\ \A k \in 0..(MacroN - 1) :
                    /\ StackPath(k) \in DOMAIN fs
                    /\ fs[StackPath(k)].files = {CandidateName(m) : m \in 0..(MacroS - 1)}
              /\ fs[<<"output_dir">>].files = fs0[<<"output_dir">>].files

\* C18 witness: a successful macro run of three stacks of two images on an
\* output directory that had no stack sub-directory
C18_Witness ==
    /\ mode = MODE_MACRO
    /\ Succeeded
    /\ NoStacksAtStart
    /\ MacroN = 3
    /\ MacroS = 2
    /\ Len(Captures) = 6

\* the capture event this step adds
NewCapture == trace'[Len(trace) + 1]

\* this step made a capture and the file system changed: a successful capture
CaptureStored == StepAdds(IsCaptureEvent) /\ fs' # fs

\* the name handed to the capture of this step was handed to no earlier
\* capture into the same directory
FreshName ==
    LET made == Captures
    IN  \A k \in 1..Len(made) :
            made[k].arg[1] = NewCapture.arg[1] => made[k].arg[2] # NewCapture.arg[2]

\* a directory without files at the start holds 0000 .. k-1 when it holds k files
GrownInOrder ==
    \A d \in DOMAIN fs :
        fs0[d].files = {} => fs[d].files = {CandidateName(m) : m \in 0..(Cardinality(fs[d].files) - 1)}

\* C19: every successful capture adds exactly one file, in its target
\* directory, under the allocated name, which did not exist there before;
\* files appear in no other way and never disappear; the name handed to a
\* capture was handed to no earlier capture into the same directory; so a
\* directory that was empty at the start and holds k files holds exactly
\* 0000.jpg .. <k-1>.jpg.
C19_OneNewFilePerCapture ==
    [][/\ CaptureStored =>
             /\ NewCapture.arg[2] # <<>>
             /\ NewCapture.arg[2][1] \notin fs[NewCapture.arg[1]].files
             /\ fs' = [fs EXCEPT ![NewCapture.arg[1]].files = @ \cup {NewCapture.arg[2][1]}]
       /\ \A d \in DOMAIN fs :
             \/ fs'[d].files = fs[d].files
             \/ StepAdds(IsCaptureEvent) /\ fs[d].files \subseteq fs'[d].files
       /\ StepAdds(IsCaptureEvent) => FreshName
       /\ fs' # fs => GrownInOrder'
      ]_vars

\* C19 witness: three captures of an interval run went into an output
\* directory that was empty at the start
C19_Witness ==
    /\ mode = MODE_INTERVAL
    /\ fs0[<<"output_dir">>] = [exists |-> TRUE, files |-> {}]
    /\ Len(Captures) = 3
    /\ fs[<<"output_dir">>].files = {CandidateName(0), CandidateName(1), CandidateName(2)}

\* ------------------------------------------------------------ after closing
\* C20: once close_ports has closed the serial connection, no command and no
\* status query is written, no reply is read, no capture is made and no file
\* is stored; the only thing that may still happen is another close_ports.
C20_NothingAfterClose ==
    [][ser_grbl = "closed" =>
          /\ tx' = tx /\ rx' = rx /\ polls' = polls
          /\ fs' = fs /\ filename' = filename
          /\ trace' = trace \/ trace' = Append(trace, CloseEvent)
          /\ ser_grbl' = "closed"
      ]_vars

\* C20 witness: wait mode has closed the ports twice and ended, with nothing
\* between and after the two closings
C20_Witness ==
    /\ mode = MODE_WAIT
    /\ Succeeded
    /\ closeCount = 2
    /\ SubSeq(trace, Len(trace) - 1, Len(trace)) = <<CloseEvent, CloseEvent>>

=========================================================================
